---- MODULE Spec2Model ----
(***************************************************************************)
(* A model of rust-docdb: an embedded document store that keeps, in one    *)
(* ordered byte-keyed key-value store, one document-body entry per         *)
(* document and one index entry per scalar leaf, and answers conjunctions  *)
(* of equality and range predicates by range scans over the index keys.    *)
(*                                                                         *)
(* Keys and values are sequences of bytes (naturals below 256).  Strings   *)
(* are the sequences of their UTF-8 bytes.                                 *)
(***************************************************************************)
EXTENDS Integers, Sequences, FiniteSets, TLC

VARIABLES db, budget, last, tx, run

vars == <<db, budget, last, tx, run>>

(***************************************************************************)
(* Bytes and byte strings (Vec<u8>, &[u8], String).                        *)
(***************************************************************************)

\* Ord for Vec<u8> / [u8] / String: byte-wise lexicographic, a proper prefix
\* is smaller.
BytesLess(a, b) ==
    \E i \in 1..Len(b) :
        /\ \A j \in 1..(i - 1) : j <= Len(a) /\ a[j] = b[j]
        /\ (i > Len(a) \/ a[i] < b[i])

BytesLeq(a, b) == a = b \/ BytesLess(a, b)

\* The greatest / least element of a non-empty set of byte strings
\* (Iterator::max / Iterator::min over Vec<u8>).
BytesMax(S) == CHOOSE x \in S : \A y \in S : BytesLeq(y, x)

BytesMin(S) == CHOOSE x \in S : \A y \in S : BytesLeq(x, y)

\* The elements of a finite set of byte strings in ascending order: the
\* order in which an ordered map or a range iterator yields its keys.
RECURSIVE SortedBytes(_)
SortedBytes(S) ==
    IF S = {} THEN <<>>
    ELSE LET m == BytesMin(S) IN <<m>> \o SortedBytes(S \ {m})

RECURSIVE Concat(_)
Concat(ss) == IF ss = <<>> THEN <<>> ELSE Head(ss) \o Concat(Tail(ss))

(***************************************************************************)
(* encoding.rs: tags and separators.                                       *)
(***************************************************************************)
KEY_DOCUMENT == 1

KEY_INDEX == 2

COMPONENT_SEP == 0

PATH_SEP == 1

JsonTag_Null == 40

JsonTag_False == 41

JsonTag_True == 42

JsonTag_Number == 43

JsonTag_String == 44

\* The byte query_upper_bound appends.
UPPER_BOUND_BYTE == 2

(***************************************************************************)
(* query.rs: TaggableValue.  A value is a record [kind, val]; val is a     *)
(* sequence of integers whatever the kind:                                 *)
(*   Null      <<>>                                                        *)
(*   Bool      <<0>> (false) or <<1>> (true)                               *)
(*   Number    <<s, m>>: the f64 of sign bit s and integral magnitude m    *)
(*             (<<1, 0>> is -0.0); <<0, -1>> is f64::NAN                   *)
(*   String    the bytes of the string                                     *)
(*   RcString  the bytes of the string                                     *)
(***************************************************************************)
TvNull == [kind |-> "Null", val |-> <<>>]

TvBool(b) == [kind |-> "Bool", val |-> IF b THEN <<1>> ELSE <<0>>]

TvF64(s, m) == [kind |-> "Number", val |-> <<s, m>>]

\* tv(f64::NAN)
TvNaN == TvF64(0, 0 - 1)

IsNaN(tv) == tv.kind = "Number" /\ tv.val[2] < 0

\* impl From<i64> for TaggableValue: i as f64
TvNumber(i) == IF i < 0 THEN TvF64(1, 0 - i) ELSE TvF64(0, i)

\* impl From<&str> / From<String> for TaggableValue
TvString(s) == [kind |-> "String", val |-> s]

\* impl From<Rc<String>> for TaggableValue
TvRcString(s) == [kind |-> "RcString", val |-> s]

(***************************************************************************)
(* f64::to_bits for the f64 of sign s and integral magnitude m < 2^11, as  *)
(* its 8 big-endian bytes (IEEE-754 binary64: 1 sign bit, 11 exponent      *)
(* bits biased by 1023, 52 fraction bits).  f64::NAN is 0x7ff8000000000000.*)
(***************************************************************************)
RECURSIVE Pow2(_)
Pow2(n) == IF n = 0 THEN 1 ELSE 2 * Pow2(n - 1)

\* floor(log2(m)) for m >= 1
RECURSIVE Log2(_)
Log2(m) == IF m < 2 THEN 0 ELSE 1 + Log2(m \div 2)

to_bits(s, m) ==
    IF m < 0 THEN <<128 * s + 127, 248, 0, 0, 0, 0, 0, 0>>
    ELSE IF m = 0 THEN <<128 * s, 0, 0, 0, 0, 0, 0, 0>>
    ELSE LET e    == Log2(m)
             ex   == 1023 + e
             frac == m - Pow2(e)
         IN  << 128 * s + (ex \div 16),
                ((ex % 16) * 16) + (((frac * 16) \div Pow2(e)) % 16),
                ((frac * 4096) \div Pow2(e)) % 256,
                ((frac * 1048576) \div Pow2(e)) % 256,
                0, 0, 0, 0 >>

\* fl >= 0_f64 (true of -0.0 as well, false of NaN)
F64NonNegative(s, m) == m >= 0 /\ (s = 0 \/ m = 0)

(***************************************************************************)
(* encoding.rs: impl Encodable for TaggableValue.                          *)
(***************************************************************************)
encode(tv) ==
    CASE tv.kind = "Null"     -> <<JsonTag_Null>>
      [] tv.kind = "Bool"     -> IF tv.val = <<1>> THEN <<JsonTag_True>>
                                                   ELSE <<JsonTag_False>>
      [] tv.kind = "Number"   ->
            LET bits == to_bits(tv.val[1], tv.val[2])
                buf  == IF F64NonNegative(tv.val[1], tv.val[2])
                        THEN [i \in 1..8 |-> IF i = 1 THEN (bits[1] + 128) % 256
                                                      ELSE bits[i]]
                        ELSE [i \in 1..8 |-> 255 - bits[i]]
            IN  <<JsonTag_Number>> \o buf
      [] tv.kind = "String"   -> <<JsonTag_String>> \o tv.val
      [] tv.kind = "RcString" -> <<JsonTag_String>> \o tv.val

\* impl Encodable for &Vec<TaggableValue>: the components separated by
\* PATH_SEP, no trailing separator.
RECURSIVE encode_path(_)
encode_path(path) ==
    IF path = <<>> THEN <<>>
    ELSE IF Len(path) = 1 THEN encode(path[1])
    ELSE encode(Head(path)) \o <<PATH_SEP>> \o encode_path(Tail(path))

encode_document_key(docid) ==
    <<KEY_DOCUMENT, 0>> \o encode(TvString(docid))

encode_index_key(docid, path, v) ==
    <<KEY_INDEX, 0>> \o encode_path(path) \o <<0>> \o encode(v) \o <<0>>
        \o encode(TvString(docid))

\* query_lower_bound(p, None) and query_lower_bound(p, Some(v)); the absent
\* value is the empty sequence, a present one the one-element sequence.
\* query_lower_bound beginning with the prefix of the document keys
query_lower_bound_DocumentPrefix(p, optv) ==
    <<KEY_DOCUMENT, 0>> \o encode_path(p)
        \o (IF optv = <<>> THEN <<>> ELSE <<0>> \o encode(optv[1]))
        \o <<0>>

query_lower_bound(p, optv) ==
    <<KEY_INDEX, 0>> \o encode_path(p)
        \o (IF optv = <<>> THEN <<>> ELSE <<0>> \o encode(optv[1]))
        \o <<0>>

query_upper_bound(p, optv) ==
    <<KEY_INDEX, 0>> \o encode_path(p)
        \o (IF optv = <<>> THEN <<>> ELSE <<0>> \o encode(optv[1]))
        \o <<UPPER_BOUND_BYTE>>

encode_index_query_p_start_key(path) == query_lower_bound(path, <<>>)

encode_index_query_pv_start_key(path, v) == query_lower_bound(path, <<v>>)

encode_index_query_p_end_key(path) == query_upper_bound(path, <<>>)

encode_index_query_pv_end_key(path, v) == query_upper_bound(path, <<v>>)

\* the bytes after the first 0x00 byte
LastSegment_AfterFirst(k) ==
    LET zs == {i \in 1..Len(k) : k[i] = 0}
    IN  IF zs = {} THEN k
        ELSE LET z == CHOOSE i \in zs : \A j \in zs : i <= j
             IN  SubSeq(k, z + 1, Len(k))

\* k.split(|b| *b == 0x00).last(): the bytes after the last 0x00 byte (the
\* whole of k when it has none).
LastSegment(k) ==
    LET zs == {i \in 1..Len(k) : k[i] = 0}
    IN  IF zs = {} THEN k
        ELSE LET z == CHOOSE i \in zs : \A j \in zs : j <= i
             IN  SubSeq(k, z + 1, Len(k))

\* str::from_utf8 succeeds: s is a sequence of well-formed UTF-8 scalar
\* values (no overlong form, no surrogate, nothing above U+10FFFF)
RECURSIVE from_utf8_ok(_)
from_utf8_ok(s) ==
    LET Cont(i) == i <= Len(s) /\ s[i] \in 128..191
        b == s[1]
    IN  IF s = <<>> THEN TRUE
        ELSE IF b < 128 THEN from_utf8_ok(Tail(s))
        ELSE IF b \in 194..223
             THEN Cont(2) /\ from_utf8_ok(SubSeq(s, 3, Len(s)))
        ELSE IF b \in 224..239
             THEN /\ Cont(2) /\ Cont(3)
                  /\ (b = 224 => s[2] >= 160)
                  /\ (b = 237 => s[2] <= 159)
                  /\ from_utf8_ok(SubSeq(s, 4, Len(s)))
        ELSE IF b \in 240..244
             THEN /\ Cont(2) /\ Cont(3) /\ Cont(4)
                  /\ (b = 240 => s[2] >= 144)
                  /\ (b = 244 => s[2] <= 143)
                  /\ from_utf8_ok(SubSeq(s, 5, Len(s)))
        ELSE FALSE

\* decode_tagged_str: [ok, id]; ok is FALSE for DecodeError.
decode_tagged_str(seg) ==
    IF seg = <<>> THEN [ok |-> FALSE, id |-> <<>>]
    ELSE IF Head(seg) = JsonTag_String /\ from_utf8_ok(Tail(seg))
         THEN [ok |-> TRUE, id |-> Tail(seg)]
    ELSE [ok |-> FALSE, id |-> <<>>]

decode_index_key_docid(k) == decode_tagged_str(LastSegment(k))

(***************************************************************************)
(* serde_json::Value.  A value is a record [kind, val]:                    *)
(*   Null    <<>>            Bool    <<0>> or <<1>>                        *)
(*   Number  <<i>>, i an integer (serde_json's PosInt / NegInt)            *)
(*   String  the bytes of the string                                       *)
(*   Array   the sequence of the elements                                  *)
(*   Object  the sequence of the <<key, value>> entries, in ascending key  *)
(*           order (serde_json::Map is a BTreeMap)                         *)
(***************************************************************************)
JNull == [kind |-> "Null", val |-> <<>>]

JBool(b) == [kind |-> "Bool", val |-> IF b THEN <<1>> ELSE <<0>>]

JNumber(i) == [kind |-> "Number", val |-> <<i>>]

JString(s) == [kind |-> "String", val |-> s]

JArray(elems) == [kind |-> "Array", val |-> elems]

JObject(entries) == [kind |-> "Object", val |-> entries]

(***************************************************************************)
(* pathvalues.rs: get_path_values.  The stack is a sequence whose last     *)
(* element is the top; acc is the Vec of (path, value) pairs returned.     *)
(***************************************************************************)
\* array positions counted from one
RECURSIVE PathValuesLoop_OneBased(_, _)
PathValuesLoop_OneBased(stack, acc) ==
    IF stack = <<>> THEN acc
    ELSE LET top  == stack[Len(stack)]
             rest == SubSeq(stack, 1, Len(stack) - 1)
             path == top[1]
             v    == top[2]
         IN  CASE v.kind = "Array" ->
                    PathValuesLoop_OneBased(
                        rest \o [i \in 1..Len(v.val) |->
                                    <<Append(path, TvNumber(i)), v.val[i]>>],
                        acc)
               [] v.kind = "Object" ->
                    PathValuesLoop_OneBased(
                        rest \o [i \in 1..Len(v.val) |->
                                    <<Append(path, TvRcString(v.val[i][1])),
                                      v.val[i][2]>>],
                        acc)
               [] v.kind = "String" ->
                    PathValuesLoop_OneBased(rest, Append(acc, <<path, TvString(v.val)>>))
               [] v.kind = "Number" ->
                    PathValuesLoop_OneBased(rest, Append(acc, <<path, TvNumber(v.val[1])>>))
               [] v.kind = "Bool" ->
                    PathValuesLoop_OneBased(rest, Append(acc, <<path, TvBool(v.val = <<1>>)>>))
               [] v.kind = "Null" ->
                    PathValuesLoop_OneBased(rest, Append(acc, <<path, TvNull>>))

RECURSIVE PathValuesLoop(_, _)
PathValuesLoop(stack, acc) ==
    IF stack = <<>> THEN acc
    ELSE LET top  == stack[Len(stack)]
             rest == SubSeq(stack, 1, Len(stack) - 1)
             path == top[1]
             v    == top[2]
         IN  CASE v.kind = "Array" ->
                    PathValuesLoop(
                        rest \o [i \in 1..Len(v.val) |->
                                    <<Append(path, TvNumber(i - 1)), v.val[i]>>],
                        acc)
               [] v.kind = "Object" ->
                    PathValuesLoop(
                        rest \o [i \in 1..Len(v.val) |->
                                    <<Append(path, TvRcString(v.val[i][1])),
                                      v.val[i][2]>>],
                        acc)
               [] v.kind = "String" ->
                    PathValuesLoop(rest, Append(acc, <<path, TvString(v.val)>>))
               [] v.kind = "Number" ->
                    PathValuesLoop(rest, Append(acc, <<path, TvNumber(v.val[1])>>))
               [] v.kind = "Bool" ->
                    PathValuesLoop(rest, Append(acc, <<path, TvBool(v.val = <<1>>)>>))
               [] v.kind = "Null" ->
                    PathValuesLoop(rest, Append(acc, <<path, TvNull>>))

get_path_values(v) == PathValuesLoop(<< <<<<>>, v>> >>, <<>>)

(***************************************************************************)
(* rmp_serde::to_vec / rmp_serde::from_slice on a serde_json::Value:       *)
(* MessagePack, in the formats the values of this model need (nil, false,  *)
(* true, positive and negative fixint, fixstr, fixarray, fixmap).          *)
(***************************************************************************)
RECURSIVE to_vec(_)
to_vec(v) ==
    CASE v.kind = "Null"   -> <<192>>
      [] v.kind = "Bool"   -> IF v.val = <<1>> THEN <<195>> ELSE <<194>>
      [] v.kind = "Number" -> IF v.val[1] >= 0 THEN <<v.val[1]>>
                                               ELSE <<256 + v.val[1]>>
      [] v.kind = "String" -> <<160 + Len(v.val)>> \o v.val
      [] v.kind = "Array"  ->
            <<144 + Len(v.val)>>
                \o Concat([i \in 1..Len(v.val) |-> to_vec(v.val[i])])
      [] v.kind = "Object" ->
            <<128 + Len(v.val)>>
                \o Concat([i \in 1..Len(v.val) |->
                              <<160 + Len(v.val[i][1])>> \o v.val[i][1]
                                  \o to_vec(v.val[i][2])])

\* One value read from the front of buf: [ok, v, rest].
RECURSIVE ReadValue(_)
RECURSIVE ReadValues(_, _)
RECURSIVE ReadEntries(_, _)
ReadValue(buf) ==
    IF buf = <<>> THEN [ok |-> FALSE, v |-> JNull, rest |-> <<>>]
    ELSE LET b == Head(buf)
             t == Tail(buf)
         IN  CASE b = 192 -> [ok |-> TRUE, v |-> JNull, rest |-> t]
               [] b = 194 -> [ok |-> TRUE, v |-> JBool(FALSE), rest |-> t]
               [] b = 195 -> [ok |-> TRUE, v |-> JBool(TRUE), rest |-> t]
               [] b < 128 -> [ok |-> TRUE, v |-> JNumber(b), rest |-> t]
               [] b >= 224 -> [ok |-> TRUE, v |-> JNumber(b - 256), rest |-> t]
               [] b >= 160 /\ b < 192 ->
                    IF Len(t) < b - 160
                    THEN [ok |-> FALSE, v |-> JNull, rest |-> <<>>]
                    ELSE [ok |-> TRUE, v |-> JString(SubSeq(t, 1, b - 160)),
                          rest |-> SubSeq(t, b - 159, Len(t))]
               [] b >= 144 /\ b < 160 ->
                    LET r == ReadValues(b - 144, t)
                    IN  [ok |-> r.ok, v |-> JArray(r.vs), rest |-> r.rest]
               [] b >= 128 /\ b < 144 ->
                    LET r == ReadEntries(b - 128, t)
                    IN  [ok |-> r.ok, v |-> JObject(r.vs), rest |-> r.rest]
               [] OTHER -> [ok |-> FALSE, v |-> JNull, rest |-> <<>>]

ReadValues(n, buf) ==
    IF n = 0 THEN [ok |-> TRUE, vs |-> <<>>, rest |-> buf]
    ELSE LET r == ReadValue(buf)
         IN  IF ~r.ok THEN [ok |-> FALSE, vs |-> <<>>, rest |-> <<>>]
             ELSE LET rs == ReadValues(n - 1, r.rest)
                  IN  [ok |-> rs.ok, vs |-> <<r.v>> \o rs.vs, rest |-> rs.rest]

ReadEntries(n, buf) ==
    IF n = 0 THEN [ok |-> TRUE, vs |-> <<>>, rest |-> buf]
    ELSE LET k == ReadValue(buf)
         IN  IF ~k.ok \/ k.v.kind # "String"
             THEN [ok |-> FALSE, vs |-> <<>>, rest |-> <<>>]
             ELSE LET r == ReadValue(k.rest)
                  IN  IF ~r.ok THEN [ok |-> FALSE, vs |-> <<>>, rest |-> <<>>]
                      ELSE LET rs == ReadEntries(n - 1, r.rest)
                           IN  [ok |-> rs.ok,
                                vs |-> << <<k.v.val, r.v>> >> \o rs.vs,
                                rest |-> rs.rest]

\* rmp_serde::from_slice::<Value>: [ok, v]; ok is FALSE for a decode error.
from_slice(buf) ==
    LET r == ReadValue(buf)
    IN  IF r.ok /\ r.rest = <<>> THEN [ok |-> TRUE, v |-> r.v]
        ELSE [ok |-> FALSE, v |-> JNull]

(***************************************************************************)
(* The sled store: a finite map from keys to values, both byte strings.    *)
(***************************************************************************)
EmptyDb == [k \in {} |-> <<>>]

DbInsert(d, k, v) == [x \in (DOMAIN d) \cup {k} |-> IF x = k THEN v ELSE d[x]]

DbRemove(d, k) == [x \in (DOMAIN d) \ {k} |-> d[x]]

\* db.range(start_key..end_key): the keys of [start_key, end_key) ascending.
DbRange(d, start_key, end_key) ==
    SortedBytes({k \in DOMAIN d : BytesLeq(start_key, k) /\ BytesLess(k, end_key)})

(***************************************************************************)
(* db.transaction: the closure's writes go to the batch of the transaction *)
(* and reach the store together when the transaction commits.  st is the   *)
(* pair [db, batch] of the store and the batch of the running transaction; *)
(* a write is <<"insert", k, v>> or <<"remove", k>>.                       *)
(***************************************************************************)
\* db_tx.insert writing to the store at once
tx_insert_Direct(st, k, v) ==
    [db |-> DbInsert(st.db, k, v), batch |-> st.batch]

\* db_tx.insert(k, v)
tx_insert(st, k, v) ==
    [db |-> st.db, batch |-> Append(st.batch, <<"insert", k, v>>)]

\* db_tx.remove(k)
tx_remove(st, k) ==
    [db |-> st.db, batch |-> Append(st.batch, <<"remove", k>>)]

\* a commit that leaves in the store the keys of the batch only
ApplyBatch_OnlyBatch(d, batch) ==
    LET ins == {i \in 1..Len(batch) : batch[i][1] = "insert"}
    IN  [k \in {batch[i][2] : i \in ins} |->
            batch[CHOOSE i \in ins :
                     /\ batch[i][2] = k
                     /\ \A j \in ins : batch[j][2] = k => j <= i][3]]

\* the commit of the transaction: the batch applied to the store
RECURSIVE ApplyBatch(_, _)
ApplyBatch(d, batch) ==
    IF batch = <<>> THEN d
    ELSE LET w == Head(batch)
         IN  ApplyBatch(IF w[1] = "insert" THEN DbInsert(d, w[2], w[3])
                                           ELSE DbRemove(d, w[2]),
                        Tail(batch))

(***************************************************************************)
(* docdb.rs                                                                *)
(***************************************************************************)
\* get_document: [err, some, doc]
get_document(d, docid) ==
    LET k == encode_document_key(docid)
    IN  IF k \notin DOMAIN d
        THEN [err |-> "none", some |-> FALSE, doc |-> JNull]
        ELSE LET r == from_slice(d[k])
             IN  IF r.ok THEN [err |-> "none", some |-> TRUE, doc |-> r.v]
                 ELSE [err |-> "DocDecode", some |-> FALSE, doc |-> JNull]

\* the loop of insert_document over path_values
RECURSIVE InsertIndexEntries(_, _, _)
InsertIndexEntries(d, docid, pvs) ==
    IF pvs = <<>> THEN d
    ELSE InsertIndexEntries(
             DbInsert(d, encode_index_key(docid, pvs[1][1], pvs[1][2]), <<>>),
             docid, Tail(pvs))

\* insert_document writing the body under the raw doc id instead of the
\* document key
insert_document_RawKey(d, docid, v) ==
    LET data == to_vec(v)
        d1   == DbInsert(d, docid, data)
    IN  InsertIndexEntries(d1, docid, get_path_values(v))

\* insert_document: the store after the transaction has committed
insert_document(d, docid, v) ==
    LET data == to_vec(v)
        d1   == DbInsert(d, encode_document_key(docid), data)
    IN  InsertIndexEntries(d1, docid, get_path_values(v))

\* the loop of delete_document over path_values
RECURSIVE RemoveIndexEntries(_, _, _)
RemoveIndexEntries(d, docid, pvs) ==
    IF pvs = <<>> THEN d
    ELSE RemoveIndexEntries(
             DbRemove(d, encode_index_key(docid, pvs[1][1], pvs[1][2])),
             docid, Tail(pvs))

\* delete_document failing when the document is not in the store
delete_document_AbsentFails(d, docid) ==
    LET k == encode_document_key(docid)
    IN  IF k \notin DOMAIN d THEN [err |-> "GenericError", db |-> d]
        ELSE LET r == from_slice(d[k])
             IN  IF ~r.ok THEN [err |-> "GenericError", db |-> d]
                 ELSE [err |-> "none",
                       db  |-> DbRemove(
                                   RemoveIndexEntries(d, docid, get_path_values(r.v)),
                                   k)]

\* delete_document: [err, db], the store after the transaction
delete_document(d, docid) ==
    LET k == encode_document_key(docid)
    IN  IF k \notin DOMAIN d THEN [err |-> "none", db |-> d]
        ELSE LET r == from_slice(d[k])
             IN  IF ~r.ok THEN [err |-> "GenericError", db |-> d]
                 ELSE [err |-> "none",
                       db  |-> DbRemove(
                                   RemoveIndexEntries(d, docid, get_path_values(r.v)),
                                   k)]

(***************************************************************************)
(* query.rs: orderings.  A comparison yields "Less", "Equal", "Greater",   *)
(* or "None" (partial_cmp found no order).                                 *)
(***************************************************************************)
BytesCmp(a, b) ==
    IF a = b THEN "Equal" ELSE IF BytesLess(a, b) THEN "Less" ELSE "Greater"

IntCmp(a, b) == IF a = b THEN "Equal" ELSE IF a < b THEN "Less" ELSE "Greater"

\* the numeric value of the f64 of sign s and magnitude m
F64Value(s, m) == IF s = 1 THEN 0 - m ELSE m

\* #[derive(PartialOrd)] on TaggableValue: the variants in declaration
\* order, then the payloads.
VariantIndex(tv) ==
    CASE tv.kind = "Null" -> 0
      [] tv.kind = "Bool" -> 1
      [] tv.kind = "Number" -> 2
      [] tv.kind = "String" -> 3
      [] tv.kind = "RcString" -> 4

TvCmp(a, b) ==
    IF VariantIndex(a) # VariantIndex(b)
    THEN IntCmp(VariantIndex(a), VariantIndex(b))
    ELSE CASE a.kind = "Null" -> "Equal"
           [] a.kind = "Bool" -> IntCmp(a.val[1], b.val[1])
           [] a.kind = "Number" ->
                IntCmp(F64Value(a.val[1], a.val[2]), F64Value(b.val[1], b.val[2]))
           [] OTHER -> BytesCmp(a.val, b.val)

\* PartialOrd for Vec<TaggableValue>: lexicographic
RECURSIVE PathCmp(_, _)
PathCmp(p, q) ==
    IF p = <<>> THEN (IF q = <<>> THEN "Equal" ELSE "Less")
    ELSE IF q = <<>> THEN "Greater"
    ELSE LET c == TvCmp(Head(p), Head(q))
         IN  IF c # "Equal" THEN c ELSE PathCmp(Tail(p), Tail(q))

\* A predicate is a record [op, p, v], op one of "E", "GT", "GTE", "LT", "LTE".
QPDiscriminant(qp) ==
    CASE qp.op = "E" -> 1
      [] qp.op = "GT" -> 2
      [] qp.op = "GTE" -> 3
      [] qp.op = "LT" -> 4
      [] qp.op = "LTE" -> 5

\* impl PartialOrd for QP
QPCmp(a, b) ==
    LET ordp == PathCmp(a.p, b.p)
    IN  IF ordp # "Equal" THEN ordp
        ELSE LET ordv == TvCmp(a.v, b.v)
             IN  IF ordv # "Equal" THEN ordv
                 ELSE IntCmp(QPDiscriminant(a), QPDiscriminant(b))

\* q.sort_by(|a, b| a.partial_cmp(b).unwrap_or(Equal)): a stable sort.
SortInsert(sorted, x) ==
    LET before == {i \in 1..Len(sorted) : QPCmp(x, sorted[i]) = "Less"}
        pos    == IF before = {} THEN Len(sorted) + 1
                  ELSE CHOOSE i \in before : \A j \in before : i <= j
    IN  SubSeq(sorted, 1, pos - 1) \o <<x>> \o SubSeq(sorted, pos, Len(sorted))

RECURSIVE SortFrom(_, _)
SortFrom(sorted, q) ==
    IF q = <<>> THEN sorted ELSE SortFrom(SortInsert(sorted, Head(q)), Tail(q))

query_sort(q) == SortFrom(<<>>, q)

(***************************************************************************)
(* query.rs / query_planner.rs: the key range of one predicate.            *)
(***************************************************************************)
scan_range_eq(path, v) ==
    [skey |-> encode_index_query_pv_start_key(path, v),
     ekey |-> encode_index_query_pv_end_key(path, v)]

\* scan_range_gte starting at the first key of the path
scan_range_gte_FromPathStart(path, v) ==
    [skey |-> encode_index_query_p_start_key(path),
     ekey |-> encode_index_query_p_end_key(path)]

scan_range_gte(path, v) ==
    [skey |-> encode_index_query_pv_start_key(path, v),
     ekey |-> encode_index_query_p_end_key(path)]

scan_range_gt(path, v) ==
    [skey |-> encode_index_query_pv_end_key(path, v),
     ekey |-> encode_index_query_p_end_key(path)]

scan_range_lt(path, v) ==
    [skey |-> encode_index_query_p_start_key(path),
     ekey |-> encode_index_query_pv_start_key(path, v)]

scan_range_lte(path, v) ==
    [skey |-> encode_index_query_p_start_key(path),
     ekey |-> encode_index_query_pv_end_key(path, v)]

\* the match on the kind of predicate (lookup_eq .. lookup_lte of query.rs
\* are the same functions as scan_range_eq .. scan_range_lte)
PredicateScan(qp) ==
    CASE qp.op = "E"   -> scan_range_eq(qp.p, qp.v)
      [] qp.op = "GT"  -> scan_range_gt(qp.p, qp.v)
      [] qp.op = "GTE" -> scan_range_gte(qp.p, qp.v)
      [] qp.op = "LT"  -> scan_range_lt(qp.p, qp.v)
      [] qp.op = "LTE" -> scan_range_lte(qp.p, qp.v)

(***************************************************************************)
(* scan: the doc ids decoded from the keys of [start_key, end_key), in key *)
(* order; a key whose doc id does not decode is skipped.                   *)
(***************************************************************************)
RECURSIVE DecodeIds(_)
DecodeIds(keys) ==
    IF keys = <<>> THEN <<>>
    ELSE LET r == decode_index_key_docid(Head(keys))
         IN  (IF r.ok THEN <<r.id>> ELSE <<>>) \o DecodeIds(Tail(keys))

scan(d, start_key, end_key) == DecodeIds(DbRange(d, start_key, end_key))

(***************************************************************************)
(* The scan loop shared by search_index (query.rs) and query_execute       *)
(* (query_executor.rs).  result_ids is the BTreeMap from doc id to count,  *)
(* a function on the set of its keys.                                      *)
(***************************************************************************)
\* for id in ids { entry(id).and_modify(+1); if first_predicate { or_insert(1) } }
RECURSIVE CountIds(_, _, _)
CountIds(result_ids, ids, first_predicate) ==
    IF ids = <<>> THEN result_ids
    ELSE LET id == Head(ids)
             m  == IF id \in DOMAIN result_ids
                   THEN [result_ids EXCEPT ![id] = @ + 1]
                   ELSE IF first_predicate
                   THEN [x \in (DOMAIN result_ids) \cup {id} |->
                            IF x = id THEN 1 ELSE result_ids[x]]
                   ELSE result_ids
         IN  CountIds(m, Tail(ids), first_predicate)

\* the ids of result_ids in descending order
RECURSIVE DescendingBytes(_)
DescendingBytes(S) ==
    IF S = {} THEN <<>>
    ELSE LET m == BytesMax(S) IN <<m>> \o DescendingBytes(S \ {m})

ResultOrder_Descending(result_ids) == DescendingBytes(DOMAIN result_ids)

\* for (id, n) in result_ids: the iteration order of the BTreeMap
ResultOrder(result_ids) == SortedBytes(DOMAIN result_ids)

\* every id that was counted is kept
KeepComplete_Any(order, result_ids, n_preds) == order

RECURSIVE KeepComplete(_, _, _)
KeepComplete(order, result_ids, n_preds) ==
    IF order = <<>> THEN <<>>
    ELSE (IF result_ids[Head(order)] = n_preds THEN <<Head(order)>> ELSE <<>>)
            \o KeepComplete(Tail(order), result_ids, n_preds)

\* the loop over the scans going on to the next scan after an empty one
RECURSIVE ScanLoop_NoShortCircuit(_, _, _)
ScanLoop_NoShortCircuit(d, scans, st) ==
    IF scans = <<>>
    THEN [results |-> KeepComplete(ResultOrder(st.result_ids), st.result_ids,
                                   st.n_preds),
          scans   |-> st.scans]
    ELSE LET s   == Head(scans)
             ids == scan(d, s.skey, s.ekey)
         IN  ScanLoop_NoShortCircuit(d, Tail(scans),
                 [result_ids      |-> CountIds(st.result_ids, ids,
                                               st.first_predicate),
                  n_preds         |-> st.n_preds + 1,
                  scans           |-> st.scans + 1,
                  first_predicate |-> FALSE])

\* The loop over the scans; st = [result_ids, n_preds, scans, first_predicate].
\* Yields the QueryResult [results, scans].
RECURSIVE ScanLoop(_, _, _)
ScanLoop(d, scans, st) ==
    IF scans = <<>>
    THEN [results |-> KeepComplete(ResultOrder(st.result_ids), st.result_ids,
                                   st.n_preds),
          scans   |-> st.scans]
    ELSE LET s   == Head(scans)
             ids == scan(d, s.skey, s.ekey)
         IN  IF ids = <<>>
             THEN [results |-> <<>>, scans |-> st.scans + 1]
             ELSE ScanLoop(d, Tail(scans),
                      [result_ids      |-> CountIds(st.result_ids, ids,
                                                    st.first_predicate),
                       n_preds         |-> st.n_preds + 1,
                       scans           |-> st.scans + 1,
                       first_predicate |-> FALSE])

InitialScanState ==
    [result_ids |-> [k \in {} |-> 0], n_preds |-> 0, scans |-> 0,
     first_predicate |-> TRUE]

\* query.rs search_index: sort the predicates, one scan per predicate.
search_index(d, q) ==
    LET sorted == query_sort(q)
        scans  == [i \in 1..Len(sorted) |-> PredicateScan(sorted[i])]
    IN  ScanLoop(d, scans, InitialScanState)

\* query_execute returning the doc id of every index key when it is given
\* no scan
query_execute_AllOnEmpty(scans, d) ==
    IF scans = <<>>
    THEN [results |-> scan(d, <<KEY_INDEX>>, <<KEY_INDEX + 1>>), scans |-> 0]
    ELSE ScanLoop(d, scans, InitialScanState)

\* query_executor.rs query_execute
query_execute(scans, d) == ScanLoop(d, scans, InitialScanState)

(***************************************************************************)
(* query_planner.rs query_plan: [err, scans].  groups is the BTreeMap from *)
(* encoded path to the Vec of the scans of that path.                      *)
(***************************************************************************)
QueryGroups(q) ==
    LET paths == {encode_path(q[i].p) : i \in 1..Len(q)}
    IN  [x \in paths |->
            {PredicateScan(q[i]) : i \in {j \in 1..Len(q) : encode_path(q[j].p) = x}}]

\* the collapse taking the widest range, from the least skey to the
\* greatest ekey
CollapseGroup_Widest(scans) ==
    [skey |-> BytesMin({s.skey : s \in scans}),
     ekey |-> BytesMax({s.ekey : s \in scans})]

CollapseGroup(scans) ==
    [skey |-> BytesMax({s.skey : s \in scans}),
     ekey |-> BytesMin({s.ekey : s \in scans})]

\* the encoded paths of q in the order in which q first names them
RECURSIVE ListedPaths(_, _)
ListedPaths(q, seen) ==
    IF q = <<>> THEN <<>>
    ELSE LET x == encode_path(Head(q).p)
         IN  IF x \in seen THEN ListedPaths(Tail(q), seen)
             ELSE <<x>> \o ListedPaths(Tail(q), seen \cup {x})

\* query_plan emitting the scans in the order in which the query first names
\* their paths (groups kept in a list instead of the BTreeMap)
query_plan_ListedOrder(q) ==
    LET groups    == QueryGroups(q)
        order     == ListedPaths(q, {})
        collapsed == [i \in 1..Len(order) |-> CollapseGroup(groups[order[i]])]
    IN  IF \E i \in 1..Len(collapsed) : BytesLess(collapsed[i].ekey, collapsed[i].skey)
        THEN [err |-> "InvalidQuery", scans |-> <<>>]
        ELSE [err |-> "none", scans |-> collapsed]

\* query_plan without the check of the collapsed ranges
query_plan_Unchecked(q) ==
    LET groups    == QueryGroups(q)
        order     == SortedBytes(DOMAIN groups)
        collapsed == [i \in 1..Len(order) |-> CollapseGroup(groups[order[i]])]
    IN  [err |-> "none", scans |-> collapsed]

query_plan(q) ==
    LET groups    == QueryGroups(q)
        order     == SortedBytes(DOMAIN groups)
        collapsed == [i \in 1..Len(order) |-> CollapseGroup(groups[order[i]])]
    IN  IF \E i \in 1..Len(collapsed) : BytesLess(collapsed[i].ekey, collapsed[i].skey)
        THEN [err |-> "InvalidQuery", scans |-> <<>>]
        ELSE [err |-> "none", scans |-> collapsed]

(***************************************************************************)
(* The calls the model makes: doc ids, bodies, paths, values, queries.     *)
(***************************************************************************)
\* the strings "a", "b", "c", "z", "x", "xy"
StrA == <<97>>

StrB == <<98>>

StrC == <<99>>

StrZ == <<122>>

StrX == <<120>>

StrXY == <<120, 121>>

DocIds == {StrA, StrB}

\* {"a": 1}
BodyA1 == JObject(<< <<StrA, JNumber(1)>> >>)

\* {"a": "xy"}
BodyAXY == JObject(<< <<StrA, JString(StrXY)>> >>)

\* {"a": {"b": 1}}
BodyNested1 ==
    JObject(<< <<StrA, JObject(<< <<StrB, JNumber(1)>> >>)>> >>)

\* {"a": {"b": 1, "c": 2}}
BodyNested2 ==
    JObject(<< <<StrA, JObject(<< <<StrB, JNumber(1)>>, <<StrC, JNumber(2)>> >>)>> >>)

\* {"a": null, "z": 1}
BodyANullZ1 == JObject(<< <<StrA, JNull>>, <<StrZ, JNumber(1)>> >>)

Bodies == {BodyA1, BodyAXY, BodyNested1, BodyNested2, BodyANullZ1}

\* keypath!["a"], keypath!["a", "b"], keypath!["z"]
PathA == <<TvString(StrA)>>

PathAB == <<TvString(StrA), TvString(StrB)>>

PathZ == <<TvString(StrZ)>>

Paths == {PathA, PathAB, PathZ}

Values == {TvNull, TvNumber(1), TvNumber(2), TvString(StrX)}

Ops == {"E", "GT", "GTE", "LT", "LTE"}

Predicates == [op : Ops, p : Paths, v : Values]

\* the predicates the queries of several predicates are made of
ConjPredicates ==
    { [op |-> "E",   p |-> PathA, v |-> TvNumber(1)],
      [op |-> "GTE", p |-> PathA, v |-> TvNull],
      [op |-> "LTE", p |-> PathA, v |-> TvNumber(1)],
      [op |-> "E",   p |-> PathZ, v |-> TvNumber(1)],
      [op |-> "LT",  p |-> PathZ, v |-> TvNumber(2)] }

Queries ==
    {<<qp>> : qp \in Predicates}
        \cup {<<p1, p2>> : p1 \in ConjPredicates, p2 \in ConjPredicates}

\* the predicates of the queries handed to the planner
PlanPaths == {PathA, PathZ}

PlanValues == {TvNumber(1), TvNumber(3)}

PlanPredicates == [op : Ops, p : PlanPaths, v : PlanValues]

\* the predicates the planned queries of three predicates are made of
TriplePredicates ==
    { [op |-> "GT",  p |-> PathA, v |-> TvNumber(3)],
      [op |-> "LTE", p |-> PathA, v |-> TvNumber(1)],
      [op |-> "GTE", p |-> PathA, v |-> TvNumber(1)],
      [op |-> "E",   p |-> PathZ, v |-> TvNumber(1)] }

\* predicates whose bounds are 0.0 and -0.0
ZeroPredicates == [op : {"E", "GTE", "LTE"}, p : {PathA}, v : {TvNumber(0), TvF64(1, 0)}]

PlanQueries ==
    {<<>>}
        \cup {<<qp>> : qp \in PlanPredicates}
        \cup {<<p1, p2>> : p1 \in ZeroPredicates, p2 \in ZeroPredicates}
        \cup {<<p1, p2>> : p1 \in PlanPredicates, p2 \in PlanPredicates}
        \cup {<<p1, p2, p3>> : p1 \in TriplePredicates, p2 \in TriplePredicates,
                               p3 \in TriplePredicates}

\* the scalar values handed to the encoder: null, the booleans, numbers
\* below, at and above zero, -0.0, NaN, and strings of which one is a prefix
\* of another, as String and as RcString
EncScalars ==
    {TvNull, TvBool(FALSE), TvBool(TRUE),
     TvNumber(0 - 2), TvNumber(0 - 1), TvF64(1, 0), TvNumber(0), TvNumber(1),
     TvNumber(2), TvNumber(1024), TvNaN,
     TvString(<<>>), TvString(StrX), TvString(StrXY), TvRcString(StrX),
     TvRcString(StrZ)}

\* the paths and values of the index keys handed to the encoder: the root
\* path, an object key, an object key below it, an array index below it
PathA0 == <<TvRcString(StrA), TvNumber(0)>>

EncPaths == {<<>>, PathA, PathAB, PathA0, PathZ}

EncValues ==
    {TvNull, TvBool(TRUE), TvNumber(0 - 1), TvNumber(1), TvNumber(2),
     TvString(StrX), TvString(StrXY)}

\* the doc ids handed to encode_index_key: the ids of the store, the empty
\* id, an id of two characters and an id of one two-byte character
StrEAcute == <<195, 169>>

EncDocIds == DocIds \cup {<<>>, StrXY, StrEAcute}

\* the values of the index keys that are decoded again: those above, zero
\* (whose encoding is all 0x00 after its first byte), -0.0 and NaN
EncKeyValues == EncValues \cup {TvNumber(0), TvF64(1, 0), TvNaN}

\* the bodies handed to get_path_values: the scalars; the empty object and
\* the empty array; arrays and objects of scalars; containers in containers,
\* empty ones among them; an object key "0" beside an array position 0
Str0 == <<48>>

FlatScalars == {JNull, JBool(FALSE), JBool(TRUE), JNumber(0), JNumber(0 - 1), JString(<<>>),
                JString(StrX)}

FlatLeafBodies == {JNull, JBool(TRUE), JNumber(1), JString(StrX), JObject(<<>>), JArray(<<>>)}

FlatInner ==
    FlatLeafBodies
      \cup {JArray(<<x, y>>) : x \in FlatLeafBodies, y \in {JNumber(1), JArray(<<>>)}}
      \cup {JObject(<< <<StrA, x>>, <<StrB, y>> >>) :
                x \in FlatLeafBodies, y \in {JNumber(1), JObject(<<>>)}}
      \cup {JObject(<< <<Str0, JNumber(1)>> >>), JArray(<<JNumber(1)>>)}

FlatBodies ==
    FlatScalars \cup FlatInner
      \cup {JArray(<<x, JArray(<<x>>)>>) : x \in FlatInner}
      \cup {JObject(<< <<StrA, x>>, <<StrZ, JString(StrXY)>> >>) : x \in FlatInner}
      \cup {JObject(<< <<StrA, JObject(<< <<StrB, JArray(<<x, JNull>>)>> >>)>> >>) :
                x \in FlatInner}

\* keys handed to decode_index_key_docid that encode_index_key did not
\* make: nothing; an index key cut off after its value, the value ending in
\* 0x00 or not; an index key followed by 0x00; a key whose last segment is
\* a String of ill-formed UTF-8; a key without 0x00
DecodeKeys ==
    {<<>>,
     <<KEY_INDEX, COMPONENT_SEP>> \o encode_path(PathA) \o <<COMPONENT_SEP>>
         \o encode(TvNumber(1)),
     <<KEY_INDEX, COMPONENT_SEP>> \o encode_path(PathA) \o <<COMPONENT_SEP>>
         \o encode(TvNumber(0 - 1)),
     <<KEY_INDEX, COMPONENT_SEP>> \o encode_path(PathA) \o <<COMPONENT_SEP>>
         \o encode(TvNull),
     encode_index_key(StrA, PathA, TvNumber(1)) \o <<COMPONENT_SEP>>,
     encode_index_key(StrA, PathA, TvNull),
     <<KEY_INDEX, COMPONENT_SEP, JsonTag_String, 255>>,
     <<KEY_INDEX, COMPONENT_SEP, JsonTag_String, 195>>,
     <<JsonTag_String, 97>>,
     <<JsonTag_True>>}

\* byte strings that are no MessagePack value: the byte 0xc1, which no
\* format uses; a map of one entry cut off after its key; nothing
RawBodies == {<<193>>, <<129, 161, 97>>, <<>>}

\* the number of writes of a run in which bodies are also written directly
MaxRawWrites == 3

\* the queries of the searches made while a transaction is running
TxQueries ==
    { << [op |-> "E",   p |-> PathA, v |-> TvNumber(1)] >>,
      << [op |-> "GTE", p |-> PathA, v |-> TvNull] >>,
      << [op |-> "LT",  p |-> PathZ, v |-> TvNumber(2)] >> }

\* the number of transactions and direct writes of a run
MaxTxWrites == 3

\* the number of set and delete calls of a run that plans and executes
MaxPlanWrites == 1

\* the queries of the searches that run while other threads write
ScanQueries ==
    { << [op |-> "E",   p |-> PathA, v |-> TvNumber(1)],
         [op |-> "E",   p |-> PathZ, v |-> TvNumber(1)] >>,
      << [op |-> "GTE", p |-> PathA, v |-> TvNull],
         [op |-> "LT",  p |-> PathZ, v |-> TvNumber(2)] >>,
      << [op |-> "GTE", p |-> PathA, v |-> TvNumber(1)] >>,
      << [op |-> "GT",  p |-> PathA, v |-> TvNumber(3)],
         [op |-> "LTE", p |-> PathA, v |-> TvNumber(1)] >> }

\* the number of set and delete calls of a run in which a search is made
\* scan by scan
MaxScanWrites == 2

\* the number of set and delete calls of a run that also searches
MaxWrites == 2

\* the number of set and delete calls of a run that only sets, deletes and gets
MaxStoreWrites == 3

(***************************************************************************)
(* State: db is the store; budget is the number of set and delete calls    *)
(* the run may still make; last is the last call with its arguments and    *)
(* what it returned; tx is the transaction of the set or delete that is    *)
(* running step by step; run is the search that is running scan by scan.   *)
(***************************************************************************)
NoCall ==
    [op |-> "none", docid |-> <<>>, body |-> JNull, q |-> <<>>,
     err |-> "none", some |-> FALSE, doc |-> JNull,
     results |-> <<>>, scans |-> 0, plan |-> <<>>, path |-> <<>>, vals |-> <<>>,
     keys |-> <<>>]

\* no search is running.  A running search has the scans it has still to
\* make in todo and the state of its loop in st; reads are the scans it has
\* made, each with the store it read and the doc ids it yielded, and stores
\* are the committed states of the store since the search began.
NoRun ==
    [op |-> "none", q |-> <<>>, plan |-> <<>>, todo |-> <<>>, st |-> InitialScanState,
     reads |-> <<>>, stores |-> {}, results |-> <<>>, scans |-> 0]

\* the running search sees the store d committed
Observed(r, d) == IF r.op = "search" THEN [r EXCEPT !.stores = @ \cup {d}] ELSE r

\* no transaction is running
NoTx == [op |-> "none", docid |-> <<>>, body |-> JNull, todo |-> <<>>, batch |-> <<>>]

Init == db = EmptyDb /\ budget = MaxWrites /\ last = NoCall /\ tx = NoTx /\ run = NoRun

StoreInit == db = EmptyDb /\ budget = MaxStoreWrites /\ last = NoCall /\ tx = NoTx /\ run = NoRun

\* get and search leave the store as it is, so the calls that follow one of
\* them return what they would have returned in its place: the model makes
\* them after a set, after a delete and on the empty store only.
AfterWrite == last.op \in {"none", "set", "delete", "raw"}

Set(docid, body) ==
    /\ budget > 0
    /\ db' = insert_document(db, docid, body)
    /\ budget' = budget - 1
    /\ last' = [NoCall EXCEPT !.op = "set", !.docid = docid, !.body = body]
    /\ UNCHANGED tx
    /\ run' = Observed(run, db')

Delete(docid) ==
    /\ budget > 0
    /\ LET r == delete_document(db, docid)
       IN  /\ db' = r.db
           /\ last' = [NoCall EXCEPT !.op = "delete", !.docid = docid,
                                     !.err = r.err]
    /\ budget' = budget - 1
    /\ UNCHANGED tx
    /\ run' = Observed(run, db')

Get(docid) ==
    /\ AfterWrite
    /\ LET r == get_document(db, docid)
       IN  last' = [NoCall EXCEPT !.op = "get", !.docid = docid, !.err = r.err,
                                  !.some = r.some, !.doc = r.doc]
    /\ UNCHANGED <<db, budget, tx, run>>

Search(q) ==
    /\ AfterWrite
    /\ LET r == search_index(db, q)
       IN  last' = [NoCall EXCEPT !.op = "search", !.q = q,
                                  !.results = r.results, !.scans = r.scans]
    /\ UNCHANGED <<db, budget, tx, run>>

\* The caller owns the sled Db it hands to every call and can write to it:
\* db.insert(encode_document_key(docid), data) with bytes of its own.
StoreRaw(docid, data) ==
    /\ budget > 0
    /\ db' = DbInsert(db, encode_document_key(docid), data)
    /\ budget' = budget - 1
    /\ last' = [NoCall EXCEPT !.op = "raw", !.docid = docid]
    /\ UNCHANGED tx
    /\ run' = Observed(run, db')

\* insert_document up to the start of its transaction: the body is
\* serialized, and the closure has its calls of db_tx.insert before it, the
\* document key first and then one index key per leaf.
SetBegin(docid, body) ==
    /\ budget > 0
    /\ tx.op = "none"
    /\ LET pvs == get_path_values(body)
       IN  tx' = [op |-> "set", docid |-> docid, body |-> body,
                  todo |-> << <<"insert", encode_document_key(docid), to_vec(body)>> >>
                             \o [i \in 1..Len(pvs) |->
                                    <<"insert",
                                      encode_index_key(docid, pvs[i][1], pvs[i][2]),
                                      <<>> >>],
                  batch |-> <<>>]
    /\ budget' = budget - 1
    /\ UNCHANGED <<db, last, run>>

\* delete_document up to the first remove of its transaction: db_tx.get and
\* from_slice; an absent body ends the closure with nothing to write, one
\* that does not decode aborts the transaction.
DeleteBegin(docid) ==
    /\ budget > 0
    /\ tx.op = "none"
    /\ budget' = budget - 1
    /\ LET k == encode_document_key(docid)
       IN  IF k \notin DOMAIN db
           THEN /\ tx' = [op |-> "delete", docid |-> docid, body |-> JNull,
                          todo |-> <<>>, batch |-> <<>>]
                /\ UNCHANGED <<db, last, run>>
           ELSE LET r == from_slice(db[k])
                IN  IF ~r.ok
                    THEN /\ tx' = NoTx
                         /\ last' = [NoCall EXCEPT !.op = "delete", !.docid = docid,
                                                   !.err = "GenericError"]
                         /\ UNCHANGED <<db, run>>
                    ELSE LET pvs == get_path_values(r.v)
                         IN  /\ tx' = [op |-> "delete", docid |-> docid, body |-> r.v,
                                       todo |-> [i \in 1..Len(pvs) |->
                                                   <<"remove",
                                                     encode_index_key(docid, pvs[i][1],
                                                                      pvs[i][2])>>]
                                                 \o << <<"remove", k>> >>,
                                       batch |-> <<>>]
                             /\ UNCHANGED <<db, last, run>>

\* the next db_tx.insert or db_tx.remove of the closure
Stage ==
    /\ tx.op # "none"
    /\ tx.todo # <<>>
    /\ LET w  == Head(tx.todo)
           st == IF w[1] = "insert"
                 THEN tx_insert([db |-> db, batch |-> tx.batch], w[2], w[3])
                 ELSE tx_remove([db |-> db, batch |-> tx.batch], w[2])
       IN  /\ db' = st.db
           /\ tx' = [tx EXCEPT !.todo = Tail(tx.todo), !.batch = st.batch]
    /\ UNCHANGED <<budget, last, run>>

\* the closure has returned Ok(()): the transaction commits and the call
\* returns
Commit ==
    /\ tx.op # "none"
    /\ tx.todo = <<>>
    /\ db' = ApplyBatch(db, tx.batch)
    /\ tx' = NoTx
    /\ last' = [NoCall EXCEPT !.op = tx.op, !.docid = tx.docid, !.body = tx.body]
    /\ UNCHANGED <<budget, run>>

TxInit == db = EmptyDb /\ budget = MaxTxWrites /\ last = NoCall /\ tx = NoTx /\ run = NoRun

\* One transaction runs at a time (sled serializes the transactions of a
\* tree); gets and searches of other threads run between its steps.
TxNext ==
    \/ \E docid \in DocIds, body \in Bodies : SetBegin(docid, body)
    \/ \E docid \in DocIds : DeleteBegin(docid)
    \/ Stage
    \/ Commit
    \/ \E docid \in DocIds, data \in RawBodies : tx.op = "none" /\ StoreRaw(docid, data)
    \/ \E docid \in DocIds : Get(docid)
    \/ \E q \in TxQueries : Search(q)

RawInit == db = EmptyDb /\ budget = MaxRawWrites /\ last = NoCall /\ tx = NoTx /\ run = NoRun

RawNext ==
    \/ \E docid \in DocIds, body \in Bodies : Set(docid, body)
    \/ \E docid \in DocIds, data \in RawBodies : StoreRaw(docid, data)
    \/ \E docid \in DocIds : Delete(docid)
    \/ \E docid \in DocIds : Get(docid)

\* query_plan(q); the planner has no access to the store
Plan(q) ==
    /\ AfterWrite
    /\ LET r == query_plan(q)
       IN  last' = [NoCall EXCEPT !.op = "plan", !.q = q, !.err = r.err,
                                  !.plan = r.scans]
    /\ UNCHANGED <<db, budget, tx, run>>

\* query_execute on the scans the planner returned
Execute ==
    /\ last.op = "plan"
    /\ last.err = "none"
    /\ LET r == query_execute(last.plan, db)
       IN  last' = [last EXCEPT !.op = "execute", !.results = r.results,
                                !.scans = r.scans]
    /\ UNCHANGED <<db, budget, tx, run>>

\* a.encode() and b.encode() of two scalar values; encode returns the bytes
\* and has no error to return
Encode(a, b) ==
    /\ last.op = "none"
    /\ last' = [NoCall EXCEPT !.op = "encode", !.vals = <<a, b>>,
                              !.keys = <<encode(a), encode(b)>>]
    /\ UNCHANGED <<db, budget, tx, run>>

\* encode_index_key(docid, path, v)
EncodeIndexKey(docid, path, v) ==
    /\ last.op = "none"
    /\ last' = [NoCall EXCEPT !.op = "index_key", !.docid = docid,
                              !.path = path, !.vals = <<v>>,
                              !.keys = <<encode_index_key(docid, path, v)>>]
    /\ UNCHANGED <<db, budget, tx, run>>

\* encode_document_key(docid)
EncodeDocumentKey(docid) ==
    /\ last.op = "none"
    /\ last' = [NoCall EXCEPT !.op = "document_key", !.docid = docid,
                              !.keys = <<encode_document_key(docid)>>]
    /\ UNCHANGED <<db, budget, tx, run>>

\* decode_index_key_docid(k): the doc id, or DecodeError
DecodeIndexKeyDocid(k) ==
    /\ last.op = "none"
    /\ LET r == decode_index_key_docid(k)
       IN  last' = [NoCall EXCEPT !.op = "decode_docid", !.keys = <<k>>,
                                  !.err = IF r.ok THEN "none" ELSE "DecodeError",
                                  !.some = r.ok, !.docid = r.id]
    /\ UNCHANGED <<db, budget, tx, run>>

\* get_path_values(body)
GetPathValues(body) ==
    /\ last.op = "none"
    /\ last' = [NoCall EXCEPT !.op = "path_values", !.body = body,
                              !.vals = get_path_values(body)]
    /\ UNCHANGED <<db, budget, tx, run>>

EncInit == db = EmptyDb /\ budget = 0 /\ last = NoCall /\ tx = NoTx /\ run = NoRun

EncNext ==
    \/ \E a \in EncScalars, b \in EncScalars : Encode(a, b)
    \/ \E docid \in EncDocIds, path \in EncPaths, v \in EncKeyValues :
           EncodeIndexKey(docid, path, v)
    \/ \E k \in DecodeKeys : DecodeIndexKeyDocid(k)
    \/ \E body \in FlatBodies : GetPathValues(body)
    \/ \E docid \in DocIds : EncodeDocumentKey(docid)

\* a search up to its first scan: query_plan, and query_execute up to its
\* loop; a query the planner rejects and a plan of no scan return at once
SearchBegin(q) ==
    /\ run.op = "none"
    /\ \E r \in {query_plan(q)} :
          IF r.err # "none" \/ r.scans = <<>>
          THEN /\ run' = [NoRun EXCEPT !.op = "done", !.q = q, !.stores = {db}]
               /\ last' = [NoCall EXCEPT !.op = "search", !.q = q, !.err = r.err]
          ELSE /\ run' = [NoRun EXCEPT !.op = "search", !.q = q, !.plan = r.scans,
                                       !.todo = r.scans, !.stores = {db}]
               /\ UNCHANGED last
    /\ UNCHANGED <<db, budget, tx>>

\* one turn of the loop of query_execute: the scan of the next range, which
\* reads the store as it is now, and the counting of the ids it yields; the
\* search returns after a scan that yields nothing and after the last scan
ScanStep ==
    /\ run.op = "search"
    /\ \E ids \in {scan(db, Head(run.todo).skey, Head(run.todo).ekey)} :
       \E st \in {[result_ids      |-> CountIds(run.st.result_ids, ids,
                                                 run.st.first_predicate),
                    n_preds         |-> run.st.n_preds + 1,
                    scans           |-> run.st.scans + 1,
                    first_predicate |-> FALSE]} :
       \E res \in {IF ids = <<>> THEN <<>>
                    ELSE KeepComplete(ResultOrder(st.result_ids), st.result_ids,
                                      st.n_preds)} :
       \E reads \in {Append(run.reads, [store |-> db, ids |-> ids])} :
          IF ids = <<>> \/ Tail(run.todo) = <<>>
          THEN /\ run' = [run EXCEPT !.op = "done", !.todo = <<>>, !.st = st,
                                     !.reads = reads, !.results = res,
                                     !.scans = st.scans]
               /\ last' = [NoCall EXCEPT !.op = "search", !.q = run.q,
                                         !.results = res, !.scans = st.scans]
          ELSE /\ run' = [run EXCEPT !.todo = Tail(run.todo), !.st = st,
                                     !.reads = reads]
               /\ UNCHANGED last
    /\ UNCHANGED <<db, budget, tx>>

ScanInit == db = EmptyDb /\ budget = MaxScanWrites /\ last = NoCall /\ tx = NoTx /\ run = NoRun

\* one thread searches once; the sets and deletes of other threads commit
\* before, between and after its scans
ScanNext ==
    \/ \E docid \in DocIds, body \in Bodies : Set(docid, body)
    \/ \E docid \in DocIds : Delete(docid)
    \/ \E q \in ScanQueries : SearchBegin(q)
    \/ ScanStep

PlanInit == db = EmptyDb /\ budget = MaxPlanWrites /\ last = NoCall /\ tx = NoTx /\ run = NoRun

PlanNext ==
    \/ \E docid \in DocIds, body \in Bodies : Set(docid, body)
    \/ \E docid \in DocIds : Delete(docid)
    \/ \E q \in PlanQueries : Plan(q)
    \/ Execute
    \/ Search(<<>>)

StoreNext ==
    \/ \E docid \in DocIds, body \in Bodies : Set(docid, body)
    \/ \E docid \in DocIds : Delete(docid)
    \/ \E docid \in DocIds : Get(docid)

Next ==
    \/ \E docid \in DocIds, body \in Bodies : Set(docid, body)
    \/ \E docid \in DocIds : Delete(docid)
    \/ \E docid \in DocIds : Get(docid)
    \/ \E q \in Queries : Search(q)

\* set, delete, get and search
Spec == Init /\ [][Next]_vars

\* set, delete and get, in longer runs
StoreSpec == StoreInit /\ [][StoreNext]_vars

\* set, delete and get on a store whose bodies may be no MessagePack
RawSpec == RawInit /\ [][RawNext]_vars

\* set and delete step by step through their transactions, with gets and
\* searches between the steps
TxSpec == TxInit /\ [][TxNext]_vars

\* the encoders applied to scalar values, doc ids, paths and values
EncSpec == EncInit /\ [][EncNext]_vars

\* a search made scan by scan while sets and deletes commit
ScanSpec == ScanInit /\ [][ScanNext]_vars

\* set and delete, and queries planned and then executed
PlanSpec == PlanInit /\ [][PlanNext]_vars

(***************************************************************************)
(* What the properties speak of.                                           *)
(***************************************************************************)
Stored(d, docid) == encode_document_key(docid) \in DOMAIN d

\* the body stored under docid
BodyOf(d, docid) == from_slice(d[encode_document_key(docid)]).v

\* flatten(body) as a set of (path, value) pairs
Flatten(body) ==
    LET pvs == get_path_values(body) IN {pvs[i] : i \in 1..Len(pvs)}

DerivedIndexKeys(docid, body) ==
    {encode_index_key(docid, pv[1], pv[2]) : pv \in Flatten(body)}

IndexKeys(d) == {k \in DOMAIN d : k[1] = KEY_INDEX}

DocumentKeys(d) == {k \in DOMAIN d : k[1] = KEY_DOCUMENT}

StoredDocs(d) == {docid \in DocIds : Stored(d, docid)}

Elems(seq) == {seq[i] : i \in 1..Len(seq)}

\* C1 (I1): the document-body keys are those of the stored documents, one
\* each, and the index keys of the store are exactly the keys derived from
\* the current bodies of the stored documents.
C1_IndexConsistent ==
    /\ DocumentKeys(db) = {encode_document_key(docid) : docid \in StoredDocs(db)}
    /\ IndexKeys(db)
         = UNION {DerivedIndexKeys(docid, BodyOf(db, docid)) : docid \in StoredDocs(db)}

\* C2 (P3): a set of a stored document leaves no index key that is derived
\* from the body it replaces and not from the body it writes.
C2_OverwriteCleans ==
    [][\A docid \in DocIds :
          (Stored(db, docid) /\ last'.op = "set" /\ last'.docid = docid)
            => (DerivedIndexKeys(docid, BodyOf(db, docid))
                  \ DerivedIndexKeys(docid, last'.body)) \cap DOMAIN db' = {}]_vars

\* C3 (P2): after a successful delete of a stored document D, get(D) is None
\* and no predicate whose search returned D just before returns it still.
C3_DeleteErases ==
    [][\A docid \in DocIds :
          (Stored(db, docid) /\ last'.op = "delete" /\ last'.docid = docid
              /\ last'.err = "none")
            => /\ get_document(db', docid).some = FALSE
               /\ \A qp \in Predicates :
                      docid \in Elems(search_index(db, <<qp>>).results)
                        => docid \notin Elems(search_index(db', <<qp>>).results)]_vars

\* C4 (P1): after set(D, B), whatever the store held before, get(D) returns
\* Some(B).
C4_RoundTrip ==
    last.op = "set"
      => get_document(db, last.docid)
           = [err |-> "none", some |-> TRUE, doc |-> last.body]

\* a set that overwrote a document of another body while a second document
\* is stored, and a get that returned the body
C4_Witness ==
    /\ last.op = "set"
    /\ last.body = BodyNested2
    /\ budget = 0
    /\ Cardinality(StoredDocs(db)) = 2
    /\ Cardinality(IndexKeys(db)) > 3
(***************************************************************************)
(* The engine's total order on scalar values, Null < false < true <        *)
(* numbers < strings, and what it is for a leaf to satisfy a predicate.    *)
(***************************************************************************)
TypeRank(tv) ==
    CASE tv.kind = "Null" -> 0
      [] tv.kind = "Bool" -> IF tv.val = <<1>> THEN 2 ELSE 1
      [] tv.kind = "Number" -> 3
      [] OTHER -> 4

ValueEq(a, b) ==
    /\ TypeRank(a) = TypeRank(b)
    /\ TypeRank(a) = 3 => F64Value(a.val[1], a.val[2]) = F64Value(b.val[1], b.val[2])
    /\ TypeRank(a) = 4 => a.val = b.val

ValueLess(a, b) ==
    \/ TypeRank(a) < TypeRank(b)
    \/ /\ TypeRank(a) = 3 /\ TypeRank(b) = 3
       /\ F64Value(a.val[1], a.val[2]) < F64Value(b.val[1], b.val[2])
    \/ /\ TypeRank(a) = 4 /\ TypeRank(b) = 4
       /\ BytesLess(a.val, b.val)

SamePath(p, q) ==
    Len(p) = Len(q) /\ \A i \in 1..Len(p) : ValueEq(p[i], q[i])

\* q is p followed by at least one more component
ExtendsPath(q, p) ==
    Len(q) > Len(p) /\ \A i \in 1..Len(p) : ValueEq(p[i], q[i])

Compares(op, w, v) ==
    CASE op = "E"   -> ValueEq(w, v)
      [] op = "GT"  -> ValueLess(v, w)
      [] op = "GTE" -> ValueLess(v, w) \/ ValueEq(w, v)
      [] op = "LT"  -> ValueLess(w, v)
      [] op = "LTE" -> ValueLess(w, v) \/ ValueEq(w, v)

\* the leaf pv = <<path, value>> satisfies the predicate qp
Satisfies(qp, pv) == SamePath(pv[1], qp.p) /\ Compares(qp.op, pv[2], qp.v)

BodySatisfies(qp, body) == \E pv \in Flatten(body) : Satisfies(qp, pv)

\* the leaves of the bodies of the model, and those of them that docid has an
\* index entry for
AllLeaves == UNION {Flatten(body) : body \in Bodies}

IndexEntriesOf(d, docid) ==
    {pv \in AllLeaves : encode_index_key(docid, pv[1], pv[2]) \in DOMAIN d}

RangeOps == {"GT", "GTE", "LT", "LTE"}

SinglePredicateSearch == last.op = "search" /\ Len(last.q) = 1

\* C5 (P5 for E): a stored document is returned by search([E(p, v)]) exactly
\* when (p, v) is one of the pairs its body flattens to.
C5_EqualityExact ==
    (SinglePredicateSearch /\ last.q[1].op = "E")
      => \A docid \in StoredDocs(db) :
            docid \in Elems(last.results)
              <=> BodySatisfies(last.q[1], BodyOf(db, docid))

\* C6 (P5 for GT, GTE, LT, LTE): a stored document is returned by
\* search([R(p, v)]) exactly when its body has a leaf at the path p itself
\* whose value satisfies R under the total order.
C6_RangeExact ==
    (SinglePredicateSearch /\ last.q[1].op \in RangeOps)
      => \A docid \in StoredDocs(db) :
            docid \in Elems(last.results)
              <=> BodySatisfies(last.q[1], BodyOf(db, docid))

NumberBoundMatches(qp, pv) ==
    \/ Satisfies(qp, pv)
         /\ \/ TypeRank(pv[2]) = 3
            \/ qp.op \in {"GT", "GTE"} /\ TypeRank(pv[2]) = 4
            \/ qp.op \in {"LT", "LTE"} /\ TypeRank(pv[2]) < 3
    \/ qp.op \in {"GT", "GTE"} /\ ExtendsPath(pv[1], qp.p)

C8_Conjunction ==
    (last.op = "search" /\ Len(last.q) = 2)
      => Elems(last.results)
           = Elems(search_index(db, <<last.q[1]>>).results)
               \cap Elems(search_index(db, <<last.q[2]>>).results)

\* C9: the results of a search are strictly ascending in doc id.
C9_ResultsAscending ==
    last.op = "search"
      => \A i \in 1..Len(last.results), j \in 1..Len(last.results) :
            i < j => BytesLess(last.results[i], last.results[j])

\* a search of two results whose scan yielded them in descending order
C9_Witness ==
    /\ SinglePredicateSearch
    /\ last.results = <<StrA, StrB>>
    /\ LET s == PredicateScan(last.q[1])
       IN  scan(db, s.skey, s.ekey) = <<StrB, StrA>>

\* C10 (P7): a search makes no more scans than its predicates have distinct
\* paths (one scan when they all share one path).
C10_ScansCollapse ==
    last.op = "search"
      => last.scans <= Cardinality({encode_path(last.q[i].p) : i \in 1..Len(last.q)})

(***************************************************************************)
(* The scans of a search in the order it makes them.                       *)
(***************************************************************************)
ExecutionOrder(q) ==
    LET sorted == query_sort(q)
    IN  [i \in 1..Len(sorted) |-> PredicateScan(sorted[i])]

\* the positions of the scans that yield no doc id from the store d
EmptyScans(d, scans) ==
    {i \in 1..Len(scans) : scan(d, scans[i].skey, scans[i].ekey) = <<>>}

\* C11 (P8): when the k-th scan in execution order is the first that yields
\* no doc id, the search returns no result and has made exactly k scans.
C11_ShortCircuit ==
    last.op = "search"
      => LET empty == EmptyScans(db, ExecutionOrder(last.q))
         IN  \A k \in empty :
                (\A j \in empty : k <= j)
                  => last.results = <<>> /\ last.scans = k

\* a search of two predicates whose first scan yielded nothing and whose
\* second scan, which was not made, would have yielded a doc id
C11_Witness ==
    /\ last.op = "search"
    /\ Len(last.q) = 2
    /\ EmptyScans(db, ExecutionOrder(last.q)) = {1}
    /\ last.scans = 1
    /\ last.results = <<>>

(***************************************************************************)
(* The planner.                                                            *)
(***************************************************************************)
\* the positions of the predicates of q that are on the path of q[i]
OnPathOf(q, i) == {j \in 1..Len(q) : encode_path(q[j].p) = encode_path(q[i].p)}

\* some path of q has a predicate whose range starts after the end of the
\* range of another predicate of that path: its collapsed range has
\* skey > ekey
DisjointRanges(q) ==
    \E i \in 1..Len(q) : \E j \in OnPathOf(q, i) :
        BytesLess(PredicateScan(q[j]).ekey, PredicateScan(q[i]).skey)

\* C12 (P9): when the collapsed range of some path of the query has
\* skey > ekey, the planner returns InvalidQuery, no scans, and has made no
\* scan of the store.
C12_UnsatisfiablePlan ==
    (last.op = "plan" /\ DisjointRanges(last.q))
      => last.err = "InvalidQuery" /\ last.plan = <<>> /\ last.scans = 0

\* GT(["a"], 3) and LTE(["a"], 1) with a predicate on another path between
\* them, the upper bound first, planned against a store that holds a
\* document
C12_Witness ==
    /\ last.op = "plan"
    /\ Len(last.q) = 3
    /\ last.q[1] = [op |-> "LTE", p |-> PathA, v |-> TvNumber(1)]
    /\ last.q[2] = [op |-> "E", p |-> PathZ, v |-> TvNumber(1)]
    /\ last.q[3] = [op |-> "GT", p |-> PathA, v |-> TvNumber(3)]
    /\ last.err = "InvalidQuery"
    /\ db # EmptyDb

\* scalar values on both sides of and between the bounds of the planned
\* predicates
ScalarsAround ==
    {TvNull, TvBool(FALSE), TvBool(TRUE), TvNumber(0), TvNumber(1), TvNumber(2),
     TvNumber(3), TvNumber(4), TvString(StrX)}

\* no one scalar value satisfies all the predicates of q that are on the
\* path of q[i]
UnsatisfiableOnPath(q, i) ==
    ~ \E w \in ScalarsAround :
          \A j \in OnPathOf(q, i) : Compares(q[j].op, w, q[j].v)

\* C13: the planner returns InvalidQuery for every query in which the
\* predicates on some one path cannot all be satisfied by one scalar value.
C13_RejectsEmptyConjunction ==
    (last.op = "plan" /\ \E i \in 1..Len(last.q) : UnsatisfiableOnPath(last.q, i))
      => last.err = "InvalidQuery"

(***************************************************************************)
(* The encoding.                                                           *)
(***************************************************************************)
\* C14 (P4/I2): encode(a) < encode(b) byte-wise exactly when a < b in the
\* total order, and values equal in the total order (numerically equal
\* numbers, equal strings) have equal encodings.
C14_EncodingOrder ==
    (last.op = "encode" /\ ~IsNaN(last.vals[1]) /\ ~IsNaN(last.vals[2]))
      => /\ BytesLess(last.keys[1], last.keys[2])
               <=> ValueLess(last.vals[1], last.vals[2])
         /\ ValueEq(last.vals[1], last.vals[2]) => last.keys[1] = last.keys[2]

\* C18: encoding a Number that is NaN fails with BadValue and yields no key
\* bytes.
C18_NaNRejected ==
    (last.op = "encode" /\ IsNaN(last.vals[1]))
      => last.err = "BadValue" /\ last.keys[1] = <<>>

\* the key k lies in the half-open range [lo, hi)
InRange(k, lo, hi) == BytesLeq(lo, k) /\ BytesLess(k, hi)

\* C20: an index key lies in [p_lower(p), p_upper(p)) exactly when its path
\* is p, and in [pv_lower(p, v), pv_upper(p, v)) exactly when its path is p
\* and its value is v.
C20_PathRangeExact ==
    last.op = "index_key"
      => \A p \in EncPaths :
            /\ InRange(last.keys[1], encode_index_query_p_start_key(p),
                                     encode_index_query_p_end_key(p))
                  <=> SamePath(last.path, p)
            /\ \A v \in EncValues :
                  InRange(last.keys[1], encode_index_query_pv_start_key(p, v),
                                       encode_index_query_pv_end_key(p, v))
                    <=> (SamePath(last.path, p) /\ ValueEq(last.vals[1], v))

(***************************************************************************)
(* The two namespaces of the store.                                        *)
(***************************************************************************)
\* the byte strings of at most two bytes over 0 .. 3, which lie below,
\* between and above the prefixes of the two namespaces
ShortKeys ==
    LET B == 0..3
    IN  {<<>>} \cup {<<a>> : a \in B} \cup {<<a, b>> : a \in B, b \in B}

\* the (path, value) pairs a call speaks of: the leaves of the body of a
\* set, the paths and bounds of the predicates of a query
PairsOfCall(c) == Flatten(c.body) \cup {<<c.q[i].p, c.q[i].v>> : i \in 1..Len(c.q)}

\* keys a range is tried on: those of the store, the document keys of the
\* doc ids, and the short keys
KeyProbes(d) ==
    DOMAIN d \cup {encode_document_key(docid) : docid \in DocIds \cup {StrZ, <<>>}}
        \cup ShortKeys

\* C19 (I4): no document key of a doc id equals an index key of a doc id with
\* a path and value of the call, and every key that lies in a range
\* [skey, ekey) of a plan begins with the index prefix, so that no scan
\* yields a document-body key.
C19_NamespacesDisjoint ==
    /\ \A d1 \in DocIds, d2 \in DocIds, pv \in PairsOfCall(last) :
            encode_document_key(d1) # encode_index_key(d2, pv[1], pv[2])
    /\ last.op \in {"plan", "execute"}
          => \A i \in 1..Len(last.plan) : \A k \in KeyProbes(db) :
                InRange(k, last.plan[i].skey, last.plan[i].ekey)
                  => Len(k) >= 2 /\ k[1] = KEY_INDEX /\ k[2] = 0

\* the plan of LT(["a"], 3), whose range starts at the first key of the
\* path, executed on a store that holds a document it returns
C19_Witness ==
    /\ last.op = "execute"
    /\ last.q = << [op |-> "LT", p |-> PathA, v |-> TvNumber(3)] >>
    /\ last.results = <<StrA>>
    /\ encode_document_key(StrA) \in DOMAIN db

(***************************************************************************)
(* Deletes and decode errors.                                              *)
(***************************************************************************)
\* C16: a delete of a doc id that has no document-body entry returns
\* success and leaves every key of the store as it was.
C16_DeleteAbsent ==
    [][\A docid \in DocIds :
          (~Stored(db, docid) /\ last'.op = "delete" /\ last'.docid = docid)
            => last'.err = "none" /\ db' = db]_vars

\* after one set of "a", a delete of "b", which was never set
C16_Witness ==
    /\ last.op = "delete"
    /\ last.docid = StrB
    /\ last.err = "none"
    /\ budget = MaxStoreWrites - 2
    /\ Stored(db, StrA)
    /\ IndexKeys(db) # {}

\* the body stored under docid does not deserialize
Undecodable(d, docid) ==
    Stored(d, docid) /\ ~from_slice(d[encode_document_key(docid)]).ok

\* C17: when the body stored under D does not deserialize, get(D) and
\* delete(D) fail with the Decode error and leave the store as it was.
C17_DecodeSurfaced ==
    [][\A docid \in DocIds :
          (Undecodable(db, docid) /\ last'.op \in {"get", "delete"}
              /\ last'.docid = docid)
            => last'.err = "DocDecode" /\ db' = db]_vars

(***************************************************************************)
(* Transactions.                                                           *)
(***************************************************************************)
\* C15: every step of a set or delete leaves the store as it was or applies
\* all the writes of that set or delete (the steps made while no
\* transaction runs are the caller's own writes of one key), and a set or
\* delete that returns an error has applied none.
C15_AllOrNothing ==
    [][/\ \/ db' = db
          \/ /\ tx.op = "set" /\ tx'.op = "none"
             /\ db' = insert_document(db, tx.docid, tx.body)
          \/ /\ tx.op = "delete" /\ tx'.op = "none"
             /\ db' = delete_document(db, tx.docid).db
          \/ tx.op = "none" /\ tx'.op = "none"
       /\ (tx.op = "none" /\ tx'.op = "none" /\ budget' # budget
              /\ last'.op \in {"set", "delete"} /\ last'.err # "none")
            => db' = db]_vars

\* a set of a body of two leaves has made all its writes and not yet
\* committed, and a get of its doc id has found no document
C15_Witness ==
    /\ tx.op = "set"
    /\ tx.todo = <<>>
    /\ Len(tx.batch) = 3
    /\ last.op = "get"
    /\ last.docid = tx.docid
    /\ last.some = FALSE

\* the permutations of 1 .. n, and the query q listed in the order f
Perms(n) == {f \in [1..n -> 1..n] : \A i \in 1..n, j \in 1..n : i # j => f[i] # f[j]}

Permuted(q, f) == [i \in 1..Len(q) |-> q[f[i]]]

IsPrefix(a, b) == Len(a) <= Len(b) /\ SubSeq(b, 1, Len(a)) = a

\* the distinct encoded paths of q, ascending
PathsOf(q) == SortedBytes({encode_path(q[i].p) : i \in 1..Len(q)})

\* C21: the planner returns the same outcome for every permutation of a
\* query, the scans in ascending order of encoded path, one per path, and
\* the execution of the plan returns the same results and number of scans.
C21_PlanDeterministic ==
    /\ last.op = "plan"
          => /\ \A f \in Perms(Len(last.q)) :
                    query_plan(Permuted(last.q, f))
                      = [err |-> last.err, scans |-> last.plan]
             /\ last.err = "none"
                   => /\ Len(last.plan) = Len(PathsOf(last.q))
                      /\ \A i \in 1..Len(last.plan) :
                            IsPrefix(<<KEY_INDEX, 0>> \o PathsOf(last.q)[i],
                                     last.plan[i].skey)
    /\ last.op = "execute"
          => \A f \in Perms(Len(last.q)) :
                query_execute(query_plan(Permuted(last.q, f)).scans, db)
                  = [results |-> last.results, scans |-> last.scans]

\* a query that names the path ["z"] before the path ["a"], planned and
\* executed with a result
C21_Witness ==
    /\ last.op = "execute"
    /\ Len(last.q) = 2
    /\ last.q[1].p = PathZ
    /\ last.q[2].p = PathA
    /\ Len(last.plan) = 2
    /\ last.results # <<>>

\* index keys of the planned paths with values below, at, between and above
\* the bounds of the planned predicates
IndexKeyProbes ==
    {encode_index_key(StrA, p, v) :
        p \in PlanPaths, v \in {TvNull, TvNumber(0), TvNumber(1), TvNumber(2),
                                TvNumber(3), TvNumber(4), TvString(StrX)}}

\* the positions of the predicates of q whose encoded path is x
OnPath(q, x) == {j \in 1..Len(q) : encode_path(q[j].p) = x}

\* C22: a plan has one scan per encoded path of the query; a key lies in the
\* range of that scan exactly when it lies in the range of every predicate
\* of that path, and the scan starts at the greatest skey and ends at the
\* least ekey of those predicates.
C22_CollapseIntersects ==
    (last.op = "plan" /\ last.err = "none")
      => /\ Len(last.plan) = Len(PathsOf(last.q))
         /\ \A i \in 1..Len(last.plan) :
               LET on == OnPath(last.q, PathsOf(last.q)[i])
               IN  /\ \E j \in on : last.plan[i].skey = PredicateScan(last.q[j]).skey
                   /\ \E j \in on : last.plan[i].ekey = PredicateScan(last.q[j]).ekey
                   /\ \A j \in on : BytesLeq(PredicateScan(last.q[j]).skey, last.plan[i].skey)
                   /\ \A j \in on : BytesLeq(last.plan[i].ekey, PredicateScan(last.q[j]).ekey)
                   /\ \A k \in IndexKeyProbes \cup DOMAIN db :
                         InRange(k, last.plan[i].skey, last.plan[i].ekey)
                           <=> \A j \in on :
                                  InRange(k, PredicateScan(last.q[j]).skey,
                                             PredicateScan(last.q[j]).ekey)

\* the plan of GTE(["a"], 1), LTE(["a"], 1) and a predicate on ["z"]: two
\* scans, the one of ["a"] over the keys of the value 1
C22_Witness ==
    /\ last.op = "plan"
    /\ Len(last.q) = 3
    /\ last.err = "none"
    /\ Len(last.plan) = 2
    /\ last.plan[1] = [skey |-> encode_index_query_pv_start_key(PathA, TvNumber(1)),
                       ekey |-> encode_index_query_pv_end_key(PathA, TvNumber(1))]
    /\ \E i \in 1..3 : last.q[i].op = "GTE"
    /\ \E i \in 1..3 : last.q[i].op = "LTE"
    /\ \E i \in 1..3 : last.q[i].p = PathZ

\* the doc ids that occur in the output of every scan of the plan
InEveryScan(d, scans) ==
    {id \in UNION {Elems(scan(d, scans[i].skey, scans[i].ekey)) : i \in 1..Len(scans)} :
        \A i \in 1..Len(scans) : id \in Elems(scan(d, scans[i].skey, scans[i].ekey))}

\* C23: query_execute on one or more scans returns exactly the doc ids that
\* occur in the output of every scan.
C23_ExecutorIntersects ==
    (last.op = "execute" /\ Len(last.plan) >= 1)
      => Elems(last.results) = InEveryScan(db, last.plan)

\* k ends in a segment, after its last 0x00 byte or from its start when it
\* has none, that is empty or starts with another byte than the String tag
NoStringSegment(k) ==
    \E i \in 0..Len(k) :
        /\ i = 0 \/ k[i] = COMPONENT_SEP
        /\ \A j \in (i + 1)..Len(k) : k[j] # COMPONENT_SEP
        /\ i = Len(k) \/ k[i + 1] # JsonTag_String

\* C24: decode_index_key_docid gives back the doc id of every key that
\* encode_index_key made, and DecodeError for a key whose last segment does
\* not start with the String tag.
C24_DocIdRoundTrip ==
    /\ last.op = "index_key"
          => decode_index_key_docid(last.keys[1]) = [ok |-> TRUE, id |-> last.docid]
    /\ (last.op = "decode_docid" /\ NoStringSegment(last.keys[1]))
          => last.err = "DecodeError"

\* the key of a doc id of two bytes, the array position 0 below "a" and the
\* value zero, whose encodings hold 0x00 bytes
C24_Witness ==
    /\ last.op = "index_key"
    /\ last.docid = StrXY
    /\ last.path = PathA0
    /\ last.vals = <<TvNumber(0)>>
    /\ decode_index_key_docid(last.keys[1]).id = StrXY

\* the scalar value of a scalar of a body
ScalarOf(v) ==
    CASE v.kind = "Null" -> TvNull
      [] v.kind = "Bool" -> TvBool(v.val = <<1>>)
      [] v.kind = "Number" -> TvNumber(v.val[1])
      [] v.kind = "String" -> TvString(v.val)

IsContainer(v) == v.kind \in {"Array", "Object"}

\* the scalar leaves of v, each with the object keys and array positions
\* that lead to it from the root, after those of path
RECURSIVE Leaves(_, _)
Leaves(v, path) ==
    CASE v.kind = "Array" ->
           UNION {Leaves(v.val[i], Append(path, TvNumber(i - 1))) : i \in 1..Len(v.val)}
      [] v.kind = "Object" ->
           UNION {Leaves(v.val[i][2], Append(path, TvRcString(v.val[i][1]))) :
                     i \in 1..Len(v.val)}
      [] OTHER -> {<<path, ScalarOf(v)>>}

\* C25: get_path_values(B) returns the scalar leaves of B, each once, with
\* the object keys and array positions that lead to it; no two pairs have
\* the same path; a scalar B gives the one pair of the empty path and B.
C25_Flattening ==
    last.op = "path_values"
      => /\ Elems(last.vals) = Leaves(last.body, <<>>)
         /\ Cardinality({last.vals[i][1] : i \in 1..Len(last.vals)}) = Len(last.vals)
         /\ ~IsContainer(last.body) => last.vals = << <<<<>>, ScalarOf(last.body)>> >>
         /\ (IsContainer(last.body) /\ last.body.val = <<>>) => last.vals = <<>>

\* an array below two object keys, with an empty array and a scalar in it
C25_Witness ==
    /\ last.op = "path_values"
    /\ last.body = JObject(<< <<StrA, JObject(<< <<StrB, JArray(<<JArray(<<>>), JNull>>)>> >>)>> >>)
    /\ last.vals = << <<<<TvRcString(StrA), TvRcString(StrB), TvNumber(1)>>, TvNull>> >>

\* C26: every doc id a search returns is stored, and the body stored under
\* it satisfies every predicate of the query.
C26_NoDanglingResults ==
    (last.op = "search" /\ last.err = "none")
      => \A i \in 1..Len(last.results) :
            /\ Stored(db, last.results[i])
            /\ \A j \in 1..Len(last.q) :
                  BodySatisfies(last.q[j], BodyOf(db, last.results[i]))

\* the keys that have come, gone or changed their value between d and e
ChangedKeys(d, e) ==
    {k \in DOMAIN d \cup DOMAIN e :
        k \notin DOMAIN d \/ k \notin DOMAIN e \/ d[k] # e[k]}

\* k is the document key of docid or an index key that ends in docid
KeyOf(docid, k) ==
    \/ k = encode_document_key(docid)
    \/ /\ k[1] = KEY_INDEX
       /\ decode_index_key_docid(k) = [ok |-> TRUE, id |-> docid]

\* C28: a step of set(D, B) or delete(D) changes no key but the document
\* key of D and index keys that end in D; a get and a search change no key.
C28_Frame ==
    [][/\ tx.op # "none" => \A k \in ChangedKeys(db, db') : KeyOf(tx.docid, k)
       /\ (last' # last /\ last'.op \in {"get", "search"}) => db' = db]_vars

\* "a" has been deleted while "b" was stored with two index entries, which
\* are all still there
C28_Witness ==
    /\ last.op = "delete"
    /\ last.docid = StrA
    /\ last.err = "none"
    /\ tx.op = "none"
    /\ DOMAIN db = {encode_document_key(StrB)} \cup DerivedIndexKeys(StrB, BodyNested2)
    /\ BodyOf(db, StrB) = BodyNested2

\* C29: when every path of the query has a scalar value that satisfies all
\* the predicates of that path, the planner returns scans, each with
\* skey < ekey.
C29_AcceptsSatisfiable ==
    (last.op = "plan" /\ \A i \in 1..Len(last.q) : ~UnsatisfiableOnPath(last.q, i))
      => /\ last.err = "none"
         /\ \A i \in 1..Len(last.plan) : BytesLess(last.plan[i].skey, last.plan[i].ekey)

\* C30: for the empty query, search_index returns no result after no scan,
\* query_plan returns no error and no scan, and query_execute of that plan
\* returns no result after no scan, whatever the store holds.
C30_EmptyConjunction ==
    /\ (last.op = "search" /\ last.q = <<>>)
          => last.err = "none" /\ last.results = <<>> /\ last.scans = 0
    /\ (last.op = "plan" /\ last.q = <<>>)
          => last.err = "none" /\ last.plan = <<>>
    /\ (last.op = "execute" /\ last.q = <<>>)
          => last.err = "none" /\ last.results = <<>> /\ last.scans = 0

\* the empty query planned and executed on a store that holds a document
\* with two index entries
C30_Witness ==
    /\ last.op = "execute"
    /\ last.q = <<>>
    /\ last.results = <<>>
    /\ last.scans = 0
    /\ Stored(db, StrA)
    /\ Cardinality(IndexKeys(db)) = 2

\* the number of times id occurs in ids
Occurrences(id, ids) == Cardinality({i \in 1..Len(ids) : ids[i] = id})

RECURSIVE TotalOccurrences(_, _)
TotalOccurrences(id, reads) ==
    IF reads = <<>> THEN 0
    ELSE Occurrences(id, Head(reads).ids) + TotalOccurrences(id, Tail(reads))

\* the stored body of docid in d satisfies every predicate of q
SatisfiedIn(d, docid, q) ==
    /\ Stored(d, docid)
    /\ \A j \in 1..Len(q) : BodySatisfies(q[j], BodyOf(d, docid))

\* C27 as stated: when a set or delete has committed between the scans of
\* a search of several scans, every doc id the search returns belongs to a
\* document that satisfied the whole conjunction in one of the committed
\* states of the store between the start and the end of the search.
C27_OneVersionMatches ==
    (run.op = "done" /\ Len(run.reads) > 1
       /\ \E i \in 1..Len(run.reads) : run.reads[i].store # run.reads[1].store)
      => \A i \in 1..Len(run.results) :
            \E d \in run.stores : SatisfiedIn(d, run.results[i], run.q)

\* C27 as the code has it: every scan of a search reads one committed state
\* of the store between the start and the end of the search, and the
\* search returns the doc ids that its first scan yielded and that its
\* scans together yielded as many times as there are scans, and none when
\* a scan yielded nothing.
C27_PerScanSnapshots ==
    run.op = "done"
      => /\ Len(run.reads) = run.scans
         /\ \A i \in 1..Len(run.reads) :
               /\ run.reads[i].store \in run.stores
               /\ run.reads[i].ids
                     = scan(run.reads[i].store, run.plan[i].skey, run.plan[i].ekey)
               /\ i < Len(run.reads) => run.reads[i].ids # <<>>
         /\ IF run.reads = <<>> \/ \E i \in 1..Len(run.reads) : run.reads[i].ids = <<>>
            THEN run.results = <<>>
            ELSE /\ Len(run.reads) = Len(run.plan)
                 /\ Elems(run.results)
                      = {id \in Elems(run.reads[1].ids) :
                            TotalOccurrences(id, run.reads) = Len(run.plan)}

\* the search for a = 1 and z = 1 has returned "a": its first scan read a
\* store in which the body of "a" had a = 1 and no z, its second scan a
\* store in which it had z = 1 and a = null, and in no committed state did
\* the body of "a" satisfy both predicates
C27_Witness ==
    /\ run.op = "done"
    /\ run.q = << [op |-> "E", p |-> PathA, v |-> TvNumber(1)],
                  [op |-> "E", p |-> PathZ, v |-> TvNumber(1)] >>
    /\ run.results = <<StrA>>
    /\ Len(run.reads) = 2
    /\ BodyOf(run.reads[1].store, StrA) = BodyA1
    /\ BodyOf(run.reads[2].store, StrA) = BodyANullZ1
    /\ \A d \in run.stores : ~SatisfiedIn(d, StrA, run.q)
====
